---- MODULE Spec2Model ----
(***************************************************************************)
(* Model of the door-latch control loop of facial_recognition.py:          *)
(* the main loop (camera read, draw_results, button control, auto close,   *)
(* periodic logging, stop key), the finally block, and the helpers         *)
(* open_servo, close_servo, process_frame and log_detections.              *)
(*                                                                         *)
(* Time.  time.time() is a float number of seconds.  The model keeps the   *)
(* clock as an integer number of 1/UnitsPerSecond seconds; every           *)
(* comparison of the source is scaled accordingly                          *)
(* (x > 0.5  becomes  2 * x > UnitsPerSecond).  Each call of time.time()   *)
(* is a read of the variable now after the environment has advanced it:    *)
(* by any amount while camera.read() blocks for a frame, by at most        *)
(* MaxDrift units between two statements of one loop iteration.            *)
(***************************************************************************)
EXTENDS Integers, Sequences, FiniteSets, TLC

(* ------------------------------ bounds --------------------------------- *)
UnitsPerSecond == 1      \* clock resolution of the model
Slack == 1               \* clock units explored beyond a timeout
MaxDrift == 1            \* clock advance between two statements of a tick
MaxFaces == 1            \* faces in one frame
MaxJumps == 1            \* long idle periods (one LOG_INTERVAL each)
LogSlack == 1            \* clock units explored after a long idle period
AggFaces == 2            \* faces in one frame when sessions are followed
MaxRuns == 2             \* times the program is started on the same log

(* -------------------------- program constants -------------------------- *)
SERVO_TIMEOUT == 5 * UnitsPerSecond
BUTTON_PRESS_TIMEOUT == 5 * UnitsPerSecond
LOG_INTERVAL == 5 * 60 * UnitsPerSecond
CONF_THRESHOLD == 50

Unknown == <<"U", "n", "k", "n", "o", "w", "n">>
staff == { <<"d", "i", "n", "i", "t", "h">>, <<"i", "s", "u", "r", "u">>,
           <<"d", "u", "l", "a", "j">>, <<"n", "i", "m", "e", "s", "h">> }
\* csv.writer writes every cell as text.  A row of the model keeps the
\* values and carries its kind: the header row is the row of column titles.
Header == [kind |-> "header",
           cells |-> <<"timestamp", "name", "confidence",
                       "detected_duration", "day">>]

(* ------------------------------ inputs --------------------------------- *)
\* encodings.pickle: the names the recogniser can report
known_face_names == { <<"I", "s", "u", "r", "u">>, <<"b", "o", "b">> }
\* confidence values the recogniser can compute (percent)
Confs == {50, 80}
\* one detected face: its best match and the confidence of the match
Face == [best : known_face_names, confidence : Confs]
Frames == UNION { [1..n -> Face] : n \in 0..MaxFaces }

\* time.time() when the program starts (seconds since the epoch, scaled)
StartTime == 1000 * UnitsPerSecond

\* The clock values an environment shows lie in a window of maxoff units
\* after the start and after each of at most maxjumps long idle periods.
\* LatchEnv follows the latch timers through a whole timeout; LogEnv
\* follows the logging interval through several idle periods.
\* frames is the set of frames the camera may deliver.
LatchEnv == [maxoff |-> SERVO_TIMEOUT + Slack, maxjumps |-> 0,
             frames |-> Frames]
LogEnv == [maxoff |-> LogSlack, maxjumps |-> MaxJumps, frames |-> Frames]
\* AggEnv follows the sessions: frames with several faces, and two
\* confidence values above the threshold so that a later sighting can
\* report less than an earlier one.
AggConfs == Confs \cup {65}
AggFrames ==
    UNION { [1..n -> [best : known_face_names, confidence : AggConfs]] :
            n \in 0..AggFaces }
AggEnv == [maxoff |-> 0, maxjumps |-> MaxJumps, frames |-> AggFrames]
\* RestartEnv follows the log file through several runs of the program.
RestartEnv == [maxoff |-> 0, maxjumps |-> MaxJumps, frames |-> Frames]
\* CadenceEnv follows the logging interval through one idle period more,
\* with frames that show nobody or one recognised face.
CadenceFrames ==
    { f \in Frames : \A i \in DOMAIN f : f[i].confidence > CONF_THRESHOLD }
CadenceEnv == [maxoff |-> LogSlack, maxjumps |-> MaxJumps + 1,
               frames |-> CadenceFrames]

Offset(t) == (t - StartTime) % LOG_INTERVAL
Jumps(t) == (t - StartTime) \div LOG_INTERVAL
Min(a, b) == IF a < b THEN a ELSE b
\* the clock after camera.read() has blocked for a frame
FrameTimes(env, t) ==
    { t + d : d \in 0..(env.maxoff - Offset(t)) }
      \cup (IF Jumps(t) < env.maxjumps THEN {t + LOG_INTERVAL} ELSE {})
\* the clock one statement later in the same loop iteration
DriftTimes(env, t) ==
    { t + d : d \in 0..Min(MaxDrift, env.maxoff - Offset(t)) }

VARIABLES
    pc,                 \* position of the main loop
    now,                \* last value returned by time.time()
    servo_state,        \* line 40
    last_seen_time,     \* line 41
    last_button_press,  \* line 44
    last_log_time,      \* line 46
    detections,         \* line 48: dict, kept in insertion order
    csv,                \* detections_log.csv, a sequence of rows
    exit_cause,         \* why the loop was left: camera, stop or sink
    calls,              \* history: actuator calls of the current tick
    tick,               \* history: inputs of the current tick
    last_trusted,       \* history: time of the last frame with a staff name
    opened_at,          \* history: time of the last change Closed -> Open
    quiet,              \* history: no staff name and no pressed button since
    trace               \* history: effects of the finally block, in order

vars == <<pc, now, servo_state, last_seen_time, last_button_press,
          last_log_time, detections, csv, exit_cause, calls, tick,
          last_trusted, opened_at, quiet, trace>>

(* --------------------------- pure functions ---------------------------- *)
\* str.lower() on the letters the model uses
LowerChar(c) ==
    CASE c = "I" -> "i"
      [] c = "U" -> "u"
      [] c = "B" -> "b"
      [] OTHER   -> c
Lower(name) == [i \in DOMAIN name |-> LowerChar(name[i])]

\* process_frame: the name and the confidence reported for every face
process_frame(frame) ==
    [i \in DOMAIN frame |->
        [name |-> IF frame[i].confidence > CONF_THRESHOLD
                  THEN frame[i].best ELSE Unknown,
         confidence |-> frame[i].confidence]]

\* name in detections
InDetections(det, name) == \E i \in DOMAIN det : det[i].name = name

\* record without the test of line 108, "Unknown" recorded like any name
record_AnyName(det, name, conf, cur) ==
    IF ~InDetections(det, name)
    THEN Append(det, [name |-> name, start |-> cur,
                      last_seen |-> cur, confidence |-> conf])
    ELSE [i \in DOMAIN det |->
            IF det[i].name = name
            THEN [det[i] EXCEPT !.last_seen = cur, !.confidence = conf]
            ELSE det[i]]
\* record opening a new session at every sighting
record_AlwaysNew(det, name, conf, cur) ==
    IF name /= Unknown
    THEN Append(det, [name |-> name, start |-> cur,
                      last_seen |-> cur, confidence |-> conf])
    ELSE det
\* record keeping the best confidence of the session instead of the latest
record_KeepsBest(det, name, conf, cur) ==
    IF name /= Unknown
    THEN IF ~InDetections(det, name)
         THEN Append(det, [name |-> name, start |-> cur,
                           last_seen |-> cur, confidence |-> conf])
         ELSE [i \in DOMAIN det |->
                 IF det[i].name = name
                 THEN [det[i] EXCEPT !.last_seen = cur,
                         !.confidence = IF conf > @ THEN conf ELSE @]
                 ELSE det[i]]
    ELSE det
\* draw_results, lines 108-113: the session update for one result
record(det, name, conf, cur) ==
    IF name /= Unknown
    THEN IF ~InDetections(det, name)
         THEN Append(det, [name |-> name, start |-> cur,
                           last_seen |-> cur, confidence |-> conf])
         ELSE [i \in DOMAIN det |->
                 IF det[i].name = name
                 THEN [det[i] EXCEPT !.last_seen = cur, !.confidence = conf]
                 ELSE det[i]]
    ELSE det

RECURSIVE RecordAll(_, _, _)
\* draw_results, lines 92-113: the session updates of one frame, in order
RecordAll(det, results, cur) ==
    IF results = <<>> THEN det
    ELSE RecordAll(record(det, Head(results).name, Head(results).confidence, cur),
                   Tail(results), cur)

\* DetectedStaff comparing the name as reported, without lower()
DetectedStaff_CaseSensitive(results) ==
    \E i \in DOMAIN results : results[i].name \in staff
\* DetectedStaff taking every recognised name for a staff name
DetectedStaff_AnyKnown(results) ==
    \E i \in DOMAIN results : results[i].name /= Unknown
\* draw_results, lines 103-105: name.lower() in staff for some result
DetectedStaff(results) ==
    \E i \in DOMAIN results : Lower(results[i].name) \in staff

\* round(x, 2) of a duration of diff clock units, in hundredths of a second
Round2(diff) == (200 * diff + UnitsPerSecond) \div (2 * UnitsPerSecond)

\* log_detections, lines 125-129: one row per entry of detections
Rows(det, label) ==
    [i \in DOMAIN det |->
        [kind |-> "data", timestamp |-> label, name |-> det[i].name,
         confidence |-> det[i].confidence,
         duration |-> Round2(det[i].last_seen - det[i].start)]]

(* ------------------------------- state --------------------------------- *)
\* the data rows of the log
DataRows == { i \in DOMAIN csv : csv[i].kind = "data" }
\* the header rows of the log
HeaderRows == { i \in DOMAIN csv : csv[i].kind = "header" }

\* what detections_log.csv holds before the program starts
PriorLogs == { <<>> }

\* the history of a tick before its frame has been processed
\* time: current_time of draw_results; was: the latch state at its start;
\* names: the names process_frame reported; before: last_button_press at
\* its start; pressed: some button sample read so far was pressed;
\* last: the button sample read last; btime: the clock of line 156;
\* results: what process_frame returned; logt: the clock of line 175
NoTick == [time |-> 0, was |-> FALSE, names |-> {}, before |-> 0,
           pressed |-> FALSE, last |-> FALSE, btime |-> 0,
           results |-> <<>>, logt |-> 0]

\* lines 10-54: the state when the main loop is entered, the header row
\* appended to whatever the log file held
InitWith(priors) ==
    /\ pc = "read"
    /\ now = StartTime
    /\ servo_state = FALSE
    /\ last_seen_time = 0
    /\ last_button_press = 0
    /\ last_log_time = StartTime
    /\ detections = <<>>
    /\ \E prior \in priors : csv = Append(prior, Header)
    /\ exit_cause = "none"
    /\ calls = <<>>
    /\ tick = NoTick
    /\ last_trusted = 0
    /\ opened_at = 0
    /\ quiet = FALSE
    /\ trace = <<>>

Init == InitWith(PriorLogs)

(* ------------------------------ helpers -------------------------------- *)
\* a call of open_servo or close_servo as the history records it:
\* the place of the call and the latch state it found
Call(op, site) == [op |-> op, site |-> site, was |-> servo_state]

\* open_servo without the re-arming of the timer (line 61)
open_servo_NoRearm(t) ==
    /\ servo_state' = TRUE
    /\ UNCHANGED last_seen_time
\* lines 57-62: open_servo(), t is the clock it reads
open_servo(t) ==
    /\ servo_state' = TRUE
    /\ last_seen_time' = t

\* close_servo leaving servo_state as it is
close_servo_Noop == UNCHANGED servo_state
\* lines 64-68: close_servo()
close_servo == servo_state' = FALSE

\* log_detections without the detections.clear() of line 137
log_detections_NoClear(label, ok, raised) ==
    LET rows == Rows(detections, label) IN
    IF rows /= <<>> /\ ~ok
    THEN /\ raised /\ UNCHANGED <<csv, detections>>
    ELSE /\ ~raised /\ csv' = csv \o rows /\ UNCHANGED detections
\* lines 122-137: log_detections().  Nothing is opened when there are no
\* rows; ok = FALSE is open(CSV_FILE, "a") raising OSError, which leaves
\* the file and detections as they were; raised tells the caller.
log_detections(label, ok, raised) ==
    LET rows == Rows(detections, label) IN
    IF rows /= <<>> /\ ~ok
    THEN /\ raised
         /\ UNCHANGED <<csv, detections>>
    ELSE /\ ~raised
         /\ csv' = csv \o rows
         /\ detections' = <<>>

\* line 116: if detected_staff and not servo_state
DetectionOpenCond(detected) == detected /\ ~servo_state

\* DetectionTimedOut with >= for >
DetectionTimedOut_AtTimeout(cur, seen) ==
    servo_state /\ cur - seen >= SERVO_TIMEOUT
\* line 119: elif servo_state and (current_time - last_seen_time >
\* SERVO_TIMEOUT) and not is_button_pressed()
DetectionTimedOut(cur, seen) == servo_state /\ cur - seen > SERVO_TIMEOUT
\* DetectionCloseCond without the test of the button
DetectionCloseCond_IgnoreButton(cur, seen, btn) == DetectionTimedOut(cur, seen)
DetectionCloseCond(cur, seen, btn) == DetectionTimedOut(cur, seen) /\ ~btn

\* Debounced without the debounce interval
Debounced_NoInterval(cur) == TRUE
\* line 157: if current_time - last_button_press > 0.5
Debounced(cur) == 2 * (cur - last_button_press) > UnitsPerSecond

\* AutoTimedOut with >= for >
AutoTimedOut_AtTimeout(t) ==
    servo_state /\ t - last_seen_time >= BUTTON_PRESS_TIMEOUT
\* line 163: if servo_state and (time.time() - last_seen_time >
\* BUTTON_PRESS_TIMEOUT) and not is_button_pressed()
AutoTimedOut(t) == servo_state /\ t - last_seen_time > BUTTON_PRESS_TIMEOUT
AutoCloseCond(t, btn) == AutoTimedOut(t) /\ ~btn

\* LogDue with > for >=
LogDue_Exceeds(t) == t - last_log_time > LOG_INTERVAL
\* line 175: if time.time() - last_log_time >= LOG_INTERVAL
LogDue(t) == t - last_log_time >= LOG_INTERVAL

(* ------------------------------ actions -------------------------------- *)
\* lines 145-152: camera.read() returns a frame; process_frame and
\* draw_results run on it.  cur is current_time (line 89), t2 the clock
\* read by open_servo (line 61), btn the button sample of line 119.
Frame(frame, cur, t2, btn) ==
    LET results  == process_frame(frame)
        detected == DetectedStaff(results)
        seen     == IF detected THEN cur ELSE last_seen_time
        trusted  == IF detected THEN cur ELSE last_trusted
        sampled  == ~DetectionOpenCond(detected) /\ DetectionTimedOut(cur, seen)
    IN
    /\ pc = "read"
    /\ pc' = "button"
    /\ detections' = RecordAll(detections, results, cur)
    /\ last_trusted' = trusted
    /\ tick' = [NoTick EXCEPT !.time = cur, !.was = servo_state,
                    !.names = { results[i].name : i \in DOMAIN results },
                    !.before = last_button_press, !.results = results,
                    !.pressed = sampled /\ btn, !.last = sampled /\ btn]
    /\ IF DetectionOpenCond(detected)
       THEN /\ open_servo(t2)
            /\ now' = t2
            /\ calls' = <<Call("open", "detection")>>
            /\ opened_at' = t2
            /\ quiet' = TRUE
       ELSE IF DetectionCloseCond(cur, seen, btn)
       THEN /\ close_servo
            /\ last_seen_time' = seen
            /\ now' = cur
            /\ calls' = <<Call("close", "detection")>>
            /\ UNCHANGED <<opened_at, quiet>>
       ELSE /\ servo_state' = servo_state
            /\ last_seen_time' = seen
            /\ now' = cur
            /\ calls' = <<>>
            /\ opened_at' = IF servo_state THEN opened_at ELSE 0
            /\ quiet' = (servo_state /\ quiet /\ ~detected
                           /\ ~(sampled /\ btn))
    /\ UNCHANGED <<last_button_press, last_log_time, csv, exit_cause, trace>>

\* the histories of the ticks end with the loop
LoopLeft ==
    /\ calls' = <<>>
    /\ tick' = NoTick
    /\ last_trusted' = 0
    /\ opened_at' = 0
    /\ quiet' = FALSE

\* the history of a tick ends with the tick
TickLeft ==
    /\ calls' = <<>>
    /\ tick' = NoTick

\* lines 145-148: camera.read() fails, the loop is left by break
CameraFail ==
    /\ pc = "read"
    /\ pc' = "finally"
    /\ exit_cause' = "camera"
    /\ LoopLeft
    /\ UNCHANGED <<now, servo_state, last_seen_time, last_button_press,
                   last_log_time, detections, csv, trace>>

\* lines 155-160: btn is the button sample, cur the clock of line 156,
\* t2 the clock read by open_servo (line 61)
ButtonControl(btn, cur, t2) ==
    /\ pc = "button"
    /\ pc' = "autoclose"
    /\ IF btn /\ Debounced(cur)
       THEN /\ last_button_press' = cur
            /\ open_servo(t2)
            /\ now' = t2
            /\ calls' = Append(calls, Call("open", "button"))
            /\ opened_at' = IF servo_state THEN opened_at ELSE t2
            /\ quiet' = ~servo_state
       ELSE /\ now' = IF btn THEN cur ELSE now
            /\ quiet' = (servo_state /\ quiet /\ ~btn)
            /\ UNCHANGED <<last_button_press, servo_state, last_seen_time,
                           calls, opened_at>>
    /\ tick' = [tick EXCEPT !.pressed = @ \/ btn, !.last = btn,
                            !.btime = IF btn THEN cur ELSE 0]
    /\ UNCHANGED <<last_log_time, detections, csv, exit_cause,
                   last_trusted, trace>>

\* lines 163-164: t is the clock of line 163, btn the button sample.
\* The clock is read only when servo_state holds, the button only when
\* the timeout has passed as well.
AutoClose(t, btn) ==
    LET sampled == AutoTimedOut(t) IN
    /\ pc = "autoclose"
    /\ pc' = "log"
    /\ now' = IF servo_state THEN t ELSE now
    /\ tick' = [tick EXCEPT !.pressed = @ \/ (sampled /\ btn),
                            !.last = sampled /\ btn, !.btime = 0]
    /\ IF AutoCloseCond(t, btn)
       THEN /\ close_servo
            /\ calls' = Append(calls, Call("close", "timeout"))
            /\ UNCHANGED quiet
       ELSE /\ quiet' = (quiet /\ ~(sampled /\ btn))
            /\ UNCHANGED <<servo_state, calls>>
    /\ UNCHANGED <<last_seen_time, last_button_press, last_log_time,
                   detections, csv, exit_cause, last_trusted, opened_at,
                   trace>>

\* lines 167-177: the FPS update and the periodic logging.  t is the clock
\* of line 175, t2 the clock of line 177, ok the outcome of the append.
PeriodicLog(t, t2, ok) ==
    /\ pc = "log"
    /\ IF LogDue(t)
       THEN \E raised \in BOOLEAN :
              /\ log_detections(t, ok, raised)
              /\ IF raised
                 THEN /\ pc' = "finally"        \* OSError leaves the loop
                      /\ exit_cause' = "sink"
                      /\ now' = t
                      /\ LoopLeft
                      /\ UNCHANGED last_log_time
                 ELSE /\ pc' = "key"
                      /\ last_log_time' = t2
                      /\ now' = t2
                      /\ tick' = [tick EXCEPT !.logt = t]
                      /\ UNCHANGED <<exit_cause, calls, last_trusted,
                                     opened_at, quiet>>
       ELSE /\ pc' = "key"
            /\ now' = t
            /\ tick' = [tick EXCEPT !.logt = t]
            /\ UNCHANGED <<last_log_time, detections, csv, exit_cause,
                           calls, last_trusted, opened_at, quiet>>
    /\ UNCHANGED <<servo_state, last_seen_time, last_button_press, trace>>

\* lines 179-180: cv2.waitKey(1) == ord('q')
WaitKey(q) ==
    /\ pc = "key"
    /\ IF q
       THEN /\ pc' = "finally"
            /\ exit_cause' = "stop"
            /\ LoopLeft
       ELSE /\ pc' = "read"
            /\ TickLeft
            /\ UNCHANGED <<exit_cause, last_trusted, opened_at, quiet>>
    /\ UNCHANGED <<now, servo_state, last_seen_time, last_button_press,
                   last_log_time, detections, csv, trace>>

\* lines 182-189, the finally block: log_detections(), camera.release(),
\* cv2.destroyAllWindows(), close_servo(), pwm.stop(), GPIO.cleanup().
\* An OSError raised by log_detections leaves the block at once.
Finally(ok) ==
    /\ pc = "finally"
    /\ \E raised \in BOOLEAN :
         /\ log_detections(now, ok, raised)
         /\ IF raised
            THEN /\ pc' = "aborted"
                 /\ trace' = Append(trace, "flush_raised")
                 /\ UNCHANGED servo_state
            ELSE /\ pc' = "done"
                 /\ close_servo
                 /\ trace' = trace \o <<"flush", "camera_release", "close",
                                        "pwm_stop", "gpio_cleanup">>
    /\ UNCHANGED <<now, last_seen_time, last_button_press, last_log_time,
                   exit_cause, calls, tick, last_trusted, opened_at, quiet>>

Step(env) ==
    \/ \E frame \in env.frames, cur \in FrameTimes(env, now), btn \in BOOLEAN :
         \E t2 \in DriftTimes(env, cur) : Frame(frame, cur, t2, btn)
    \/ CameraFail
    \/ \E btn \in BOOLEAN, cur \in DriftTimes(env, now) :
         \E t2 \in DriftTimes(env, cur) : ButtonControl(btn, cur, t2)
    \/ \E t \in DriftTimes(env, now), btn \in BOOLEAN : AutoClose(t, btn)
    \/ \E t \in DriftTimes(env, now), ok \in BOOLEAN :
         \E t2 \in DriftTimes(env, t) : PeriodicLog(t, t2, ok)
    \/ \E q \in BOOLEAN : WaitKey(q)
    \/ \E ok \in BOOLEAN : Finally(ok)

Next == Step(LatchEnv)
NextLog == Step(LogEnv)

\* the control loop with the clock followed through a whole latch timeout
Spec == Init /\ [][Next]_vars
\* the control loop with the clock followed through the logging intervals
SpecLog == Init /\ [][NextLog]_vars
\* the control loop with the sessions followed through frames of several faces
NextAgg == Step(AggEnv)
SpecAgg == Init /\ [][NextAgg]_vars

\* the control loop with the clock followed through two logging intervals
NextCadence == Step(CadenceEnv)
SpecCadence == Init /\ [][NextCadence]_vars

\* LiveEnv follows the latch through a whole timeout, with frames that
\* show nobody, an unrecognised face or staff.
LiveFrames ==
    { f \in Frames : \A i \in DOMAIN f : Lower(f[i].best) \in staff }
LiveEnv == [maxoff |-> SERVO_TIMEOUT + Slack, maxjumps |-> 0,
            frames |-> LiveFrames]

\* The control loop under the scheduling the program has: the loop is one
\* thread that takes its next step whenever it has one, and camera.read()
\* keeps delivering frames at later and later clock readings for as long
\* as the clock values followed allow.
NextLive == Step(LiveEnv)
TimePasses ==
    \E frame \in LiveEnv.frames, cur \in FrameTimes(LiveEnv, now),
       btn \in BOOLEAN :
       /\ cur > now
       /\ \E t2 \in DriftTimes(LiveEnv, cur) : Frame(frame, cur, t2, btn)
SpecLive ==
    Init /\ [][NextLive]_vars /\ WF_vars(NextLive) /\ SF_vars(TimePasses)

\* The program is started again after it has ended: lines 10-54 run once
\* more, on the log file the ended run has left; the file is opened in
\* append mode and the header row is written (lines 52-54).
Restart ==
    /\ pc \in {"done", "aborted"}
    /\ Cardinality(HeaderRows) < MaxRuns
    /\ pc' = "read"
    /\ servo_state' = FALSE
    /\ last_seen_time' = 0
    /\ last_button_press' = 0
    /\ last_log_time' = now
    /\ detections' = <<>>
    /\ csv' = Append(csv, Header)
    /\ exit_cause' = "none"
    /\ calls' = <<>>
    /\ tick' = NoTick
    /\ last_trusted' = 0
    /\ opened_at' = 0
    /\ quiet' = FALSE
    /\ trace' = <<>>
    /\ UNCHANGED now

\* several runs of the program, one after the other, on the same log file
NextRestart == Step(RestartEnv) \/ Restart
SpecRestart == Init /\ [][NextRestart]_vars

(* ------------------------------ claims --------------------------------- *)
LoopPcs == {"read", "button", "autoclose", "log", "key"}
\* positions at which all three control blocks of the tick have run
TickDone == {"log", "key"}
Terminated == {"done", "aborted"}
\* the tick's results contain a name whose lower-cased form is in the roster
TrustedSeen == \E n \in tick.names : Lower(n) \in staff
\* last_button_press was set during the current tick
PressRecognized == last_button_press /= tick.before
Has(seq, x) == \E i \in DOMAIN seq : seq[i] = x

\* C1 (idempotent actuation): no tick calls open_servo while servo_state
\* is True, nor close_servo while it is False.
C1_IdempotentActuation ==
    \A i \in DOMAIN calls :
        /\ calls[i].op = "open" => ~calls[i].was
        /\ calls[i].op = "close" => calls[i].was

\* C2 (one effect per tick): the detection control, the button control and
\* the auto close of one loop iteration call the actuator at most once.
C2_OneEffectPerTick == Len(calls) <= 1

\* C3 (double-guarded close): a step of a tick that closes the latch found
\* it open, reads a clock more than the detection timeout after the last
\* frame with a roster name and more than the grace period after the last
\* recognised button press, and has sampled the button as not pressed.
C3_GuardedClose ==
    [][(pc \in LoopPcs /\ ~servo_state')
         => \/ ~servo_state
            \/ /\ now' - last_trusted' > SERVO_TIMEOUT
               /\ now' - last_button_press' > BUTTON_PRESS_TIMEOUT
               /\ ~tick'.last
               /\ calls' /= <<>>
               /\ calls'[Len(calls')].op = "close"
               /\ calls'[Len(calls')].was]_vars
\* a tick has closed the latch
C3_Witness ==
    /\ ~servo_state
    /\ \E i \in DOMAIN calls : calls[i].op = "close" /\ calls[i].was

\* C4 (timeout closes): while no roster name and no pressed button has been
\* seen since the latch opened at opened_at, a close check of a tick closes
\* the latch exactly when its clock is more than SERVO_TIMEOUT past
\* opened_at.
C4_TimeoutCloses ==
    [][(/\ pc \in {"read", "autoclose"}
        /\ pc' \in {"button", "log"}
        /\ servo_state /\ quiet /\ quiet')
         => (~servo_state' <=> now' - opened_at > SERVO_TIMEOUT)]_vars
\* the latch has been closed by the timeout after an undisturbed opening
C4_Witness ==
    /\ quiet /\ ~servo_state /\ pc = "log"
    /\ calls /= <<>> /\ calls[Len(calls)].op = "close"
    /\ now - opened_at > SERVO_TIMEOUT

\* C5 (shutdown sequence): once the program has stopped after the stop key
\* or a failed camera read, the finally block has flushed, then closed the
\* latch, then released the actuator and the inputs, and the latch is
\* closed.
C5_ShutdownSequence ==
    (pc \in Terminated /\ exit_cause \in {"stop", "camera"})
      => /\ trace = <<"flush", "camera_release", "close", "pwm_stop",
                      "gpio_cleanup">>
         /\ ~servo_state

\* C6 (shutdown never bypassed): however the loop was left, a stopped
\* program has called close_servo and released the actuator and the inputs,
\* and the latch is not left open.
C6_ShutdownNeverBypassed ==
    pc \in Terminated
      => /\ Has(trace, "close")
         /\ Has(trace, "pwm_stop") /\ Has(trace, "gpio_cleanup")
         /\ ~servo_state

\* C7 (append failure survived): a failed append of the periodic flush
\* leaves the loop running and the sessions in memory.
C7_AppendFailureSurvived ==
    exit_cause = "sink" => (pc \in LoopPcs /\ detections /= <<>>)

\* C8 (trusted detection opens): at the end of a tick that began with the
\* latch closed and whose results hold a roster name, the latch is open and
\* last_seen_time is a clock value of that tick.
C8_TrustedOpens ==
    (pc \in TickDone /\ ~tick.was /\ TrustedSeen)
      => /\ servo_state
         /\ tick.time <= last_seen_time
         /\ last_seen_time <= now
\* such a tick has ended, its name in mixed case and the button pressed
C8_Witness ==
    /\ pc \in TickDone /\ ~tick.was /\ tick.pressed
    /\ <<"I", "s", "u", "r", "u">> \in tick.names

\* C9 (unknown never opens): a tick that began closed, saw no roster name
\* and no pressed button ends closed without an actuator call; and a call
\* that opened a closed latch belongs to a tick with a roster name or a
\* recognised button press.
C9_UnknownNeverOpens ==
    /\ (pc \in TickDone /\ ~tick.was /\ ~TrustedSeen /\ ~tick.pressed)
         => (calls = <<>> /\ ~servo_state)
    /\ \A i \in DOMAIN calls :
         (calls[i].op = "open" /\ ~calls[i].was)
           => (TrustedSeen \/ PressRecognized)
\* a tick with an unknown face and one with a known non-roster face has
\* ended with the latch still closed
C9_Witness ==
    /\ pc \in TickDone /\ ~tick.was /\ ~tick.pressed /\ ~servo_state
    /\ tick.names = { <<"b", "o", "b">> }
    /\ \E i \in DOMAIN detections : detections[i].name = <<"b", "o", "b">>

\* C10 (button debounce): the button block recognises a pressed sample
\* (sets last_button_press to its clock and calls open_servo) exactly when
\* that clock is more than 0.5 s after last_button_press; otherwise it
\* leaves last_button_press and the latch alone.
C10_Debounce ==
    [][pc = "button"
         => IF tick'.last /\ 2 * (tick'.btime - last_button_press) > UnitsPerSecond
            THEN /\ last_button_press' = tick'.btime
                 /\ servo_state'
                 /\ Len(calls') = Len(calls) + 1
                 /\ calls'[Len(calls')].op = "open"
            ELSE /\ last_button_press' = last_button_press
                 /\ servo_state' = servo_state
                 /\ calls' = calls]_vars
\* a pressed sample was ignored because a press had just been recognised
C10_Witness ==
    /\ pc = "autoclose" /\ tick.last
    /\ last_button_press = tick.before
    /\ tick.before >= StartTime

(* ------------------------- sessions and the log ------------------------ *)
\* the identities with a live session
Live(det) == { det[i].name : i \in DOMAIN det }
\* the identities a frame's results report, "Unknown" left out
Sighted(results) == { results[i].name : i \in DOMAIN results } \ {Unknown}
\* the confidence of the last result of a frame that reports name
LastConf(results, name) ==
    LET last == CHOOSE i \in DOMAIN results :
                    /\ results[i].name = name
                    /\ \A j \in DOMAIN results :
                           results[j].name = name => j <= i
    IN results[last].confidence
\* the session of name
SessionOf(det, name) == det[CHOOSE i \in DOMAIN det : det[i].name = name]

\* a step that processes a frame (lines 145-152 of one iteration)
FrameStep == pc = "read" /\ pc' = "button"
\* a step in which log_detections was called and returned
PeriodicFlushed == pc = "log" /\ pc' = "key" /\ last_log_time' /= last_log_time
FinalFlushed == pc = "finally" /\ pc' = "done"
FlushReturned == PeriodicFlushed \/ FinalFlushed

\* every session after a frame is what the sightings of the frame make it
RecordedAsSighted ==
    LET res == tick'.results
        t == tick'.time
    IN /\ Live(detections') = Live(detections) \cup Sighted(res)
       /\ Len(detections') = Cardinality(Live(detections'))
       /\ \A i \in DOMAIN detections' :
             LET e == detections'[i] IN
             /\ e.start = IF e.name \in Live(detections)
                          THEN SessionOf(detections, e.name).start ELSE t
             /\ IF e.name \in Sighted(res)
                THEN /\ e.last_seen = t
                     /\ e.confidence = LastConf(res, e.name)
                ELSE e = SessionOf(detections, e.name)

\* the rows a flush appends are the live sessions, one row each
RowsAsSessions ==
    /\ Len(csv') = Len(csv) + Len(detections)
    /\ SubSeq(csv', 1, Len(csv)) = csv
    /\ \A i \in DOMAIN detections :
          LET r == csv'[Len(csv) + i]
              e == detections[i]
              err == 2 * UnitsPerSecond * r.duration
                       - 200 * (e.last_seen - e.start)
          IN /\ r.name = e.name
             /\ r.confidence = e.confidence
             /\ err <= UnitsPerSecond /\ -err <= UnitsPerSecond

\* C11: a flush emits exactly one row per live session, whose duration is
\* the last sighting minus the first sighting of the session and whose
\* confidence is the one of the most recent sighting; with no live session
\* a flush appends nothing to the log (and so cannot fail).
C11_FlushRows ==
    [][ /\ FrameStep => RecordedAsSighted
        /\ FlushReturned => RowsAsSessions
        /\ (pc = "log" /\ detections = <<>>) => (pc' = "key" /\ csv' = csv)
        /\ (pc = "finally" /\ detections = <<>>)
              => (pc' = "done" /\ csv' = csv) ]_vars
\* a periodic flush has just written two sessions, one of them seen over a
\* whole logging interval, one with the lower confidence value
C11_Witness ==
    /\ pc = "key" /\ last_log_time = now /\ now > StartTime
    /\ detections = <<>>
    /\ \E i, j \in DataRows :
          /\ i /= j
          /\ csv[i].duration >= 100 * 300
          /\ csv[j].confidence = 65

\* C12: right after every flush no session is live, and the next record of
\* an identity - flushed before or not - creates a new session whose start
\* and last sighting are the time of that sighting (duration 0): no live
\* session starts before the last periodic flush.
C12_FlushClears ==
    [][ /\ FlushReturned => detections' = <<>>
        /\ \A i \in DOMAIN detections' :
              detections'[i].start >= last_log_time'
        /\ FrameStep =>
              \A i \in DOMAIN detections' :
                 LET e == detections'[i] IN
                 e.name \notin Live(detections)
                   => /\ e.start = tick'.time /\ e.last_seen = tick'.time
                      /\ Round2(e.last_seen - e.start) = 0 ]_vars
\* an identity whose session was flushed is sighted again and has a new
\* session that starts at this sighting
C12_Witness ==
    /\ pc = "button" /\ last_log_time > StartTime
    /\ \E i \in DOMAIN detections, j \in DataRows :
          /\ csv[j].name = detections[i].name
          /\ csv[j].duration > 0
          /\ detections[i].start = tick.time
          /\ detections[i].last_seen = tick.time

\* C13: every session that is live when the loop ends by the stop key or
\* by a camera failure has its row in the log once the program has ended;
\* no session is lost.  (A session leaves detections only in the
\* log_detections call that writes its row, so a session still live when
\* the program has ended was never written.)
C13_ForcedFlush ==
    (pc \in Terminated /\ exit_cause \in {"stop", "camera"})
        => detections = <<>>

\* C14: over any sequence of program starts, flushes and shutdowns on the
\* same log file, the log holds the header row exactly once, and the header
\* row precedes every data row.
C14_HeaderOnce ==
    /\ Cardinality(HeaderRows) = 1
    /\ \A h \in HeaderRows, d \in DataRows : h < d

\* every live session ends no earlier than it starts, one session a name
SessionsOk(det) ==
    /\ \A i \in DOMAIN det : det[i].last_seen >= det[i].start
    /\ \A i, j \in DOMAIN det : det[i].name = det[j].name => i = j

\* C15: with a clock that never runs backwards, every live session has
\* last_seen >= start and every identity has at most one live session;
\* every duration written to the log is >= 0, and a session sighted once
\* is written with duration 0.
C15_SessionInvariant ==
    [][ /\ SessionsOk(detections')
        /\ \A i \in DOMAIN csv' :
              csv'[i].kind = "data" => csv'[i].duration >= 0
        /\ FlushReturned =>
              \A i \in DOMAIN detections :
                 detections[i].last_seen = detections[i].start
                    => csv'[Len(csv) + i].duration = 0 ]_vars
\* one flush has written a session sighted at one time only and a session
\* sighted over a logging interval
C15_Witness ==
    \E i, j \in DataRows :
       /\ csv[i].timestamp = csv[j].timestamp
       /\ csv[i].duration = 0
       /\ csv[j].duration > 0

\* C16: a result named "Unknown" leaves the sessions as they are; no
\* session is keyed "Unknown" and no row named "Unknown" is ever in the
\* log; every other reported identity, on the staff list or not, is
\* recorded.
C16_UnknownNeverRecorded ==
    [][ /\ Unknown \notin Live(detections')
        /\ \A i \in DOMAIN csv' :
              csv'[i].kind = "data" => csv'[i].name /= Unknown
        /\ FrameStep =>
              /\ Sighted(tick'.results) \subseteq Live(detections')
              /\ Sighted(tick'.results) = {} => detections' = detections
              /\ Live(detections') \ Live(detections)
                    \subseteq Sighted(tick'.results) ]_vars
\* a frame showed an unrecognised face next to a face that is known but
\* not on the staff list, and only the latter has a session
C16_Witness ==
    /\ pc = "button"
    /\ Unknown \in tick.names
    /\ \E n \in tick.names : n /= Unknown /\ Lower(n) \notin staff
    /\ Len(detections) = 1

(* ------------------------------ the latch ------------------------------ *)
\* C17: every change from Closed to Open, at time t, sets last_seen_time
\* to t, and no tick whose clock is at most SERVO_TIMEOUT past t closes the
\* latch.
C17_FreshOpenFullWindow ==
    [][ /\ (~servo_state /\ servo_state')
              => (last_seen_time' = now' /\ opened_at' = now')
        /\ (servo_state /\ ~servo_state' /\ pc \in LoopPcs)
              => now' - opened_at > SERVO_TIMEOUT ]_vars
\* the latch is still open when all the checks of a tick have run exactly
\* SERVO_TIMEOUT after it opened, nothing having re-armed the timer since
C17_Witness ==
    /\ pc = "log" /\ servo_state /\ quiet
    /\ last_seen_time = opened_at
    /\ now - opened_at = SERVO_TIMEOUT

\* C19: last_seen_time is never older than last_button_press, at every
\* tick boundary and after every block of a tick, so the timer test of the
\* two close checks cannot pass while the grace period of the last
\* recognised press runs.
C19_TimerOrdering ==
    /\ last_seen_time >= last_button_press
    /\ \A t \in DriftTimes(LatchEnv, now) :
          (AutoTimedOut(t) \/ DetectionTimedOut(t, last_seen_time))
             => t - last_button_press > BUTTON_PRESS_TIMEOUT
\* at a tick boundary, after a recognised press, with a staff sighting
\* later than the press
C19_Witness ==
    /\ pc = "read" /\ servo_state
    /\ last_button_press >= StartTime
    /\ last_seen_time > last_button_press

(* --------------------------- periodic logging -------------------------- *)
\* a tick has passed line 175 and goes on to the stop key
LogChecked == pc = "log" /\ pc' = "key"
\* the periodic log_detections() call raised and the loop is left
LogRaised == pc = "log" /\ pc' = "finally"
\* the time since the last periodic flush, or since the start, at line 175
ElapsedAtCheck == tick'.logt - last_log_time
\* the tick has flushed: the live sessions are written and cleared, and
\* the reference time is the clock read after the flush
PeriodicFlushDone ==
    /\ RowsAsSessions
    /\ detections' = <<>>
    /\ last_log_time' = now' /\ last_log_time' >= tick'.logt
\* the tick has not flushed
NoPeriodicFlush == UNCHANGED <<last_log_time, csv, detections>>

\* C18 as stated: a tick flushes exactly when the time since the last
\* periodic flush (or the start) exceeds LOG_INTERVAL; the reference time
\* is reset by each flush, so two periodic flushes are at least
\* LOG_INTERVAL apart.
C18_FlushWhenExceeds ==
    [][ /\ LogChecked =>
              IF ElapsedAtCheck > LOG_INTERVAL
              THEN PeriodicFlushDone
                   /\ last_log_time' - last_log_time >= LOG_INTERVAL
              ELSE NoPeriodicFlush
        /\ LogRaised => now' - last_log_time > LOG_INTERVAL ]_vars
\* C18 amended: a tick flushes exactly when the time since the last
\* periodic flush (or the start) is at least LOG_INTERVAL; the reference
\* time is reset by each flush that returns, so two periodic flushes are at
\* least LOG_INTERVAL apart; a flush that raises was due as well.
C18_FlushCadence ==
    [][ /\ LogChecked =>
              IF ElapsedAtCheck >= LOG_INTERVAL
              THEN PeriodicFlushDone
                   /\ last_log_time' - last_log_time >= LOG_INTERVAL
              ELSE NoPeriodicFlush
        /\ LogRaised => now' - last_log_time >= LOG_INTERVAL ]_vars
\* the second periodic flush has run exactly LOG_INTERVAL after the first,
\* which ran exactly LOG_INTERVAL after the start
C18_Witness ==
    /\ pc = "key"
    /\ tick.logt = StartTime + 2 * LOG_INTERVAL
    /\ last_log_time = tick.logt
    /\ Cardinality(DataRows) = 2

(* ------------------------------ liveness ------------------------------- *)
\* the values of last_seen_time from which the clock values followed reach
\* past the timeout
ArmedTimes ==
    { c \in StartTime..(StartTime + LiveEnv.maxoff) :
        c + SERVO_TIMEOUT < StartTime + LiveEnv.maxoff }

\* C20: while ticks keep occurring and time keeps advancing, an open latch
\* whose timer was armed at c is eventually closed unless the timer is
\* re-armed by a staff sighting or a recognised press, or a button sample
\* reads pressed, or the loop is left; and a closed latch opens only in a
\* tick with a staff sighting or a recognised press.
C20_EventualClose ==
    /\ \A c \in ArmedTimes :
          (servo_state /\ last_seen_time = c /\ pc \in LoopPcs)
             ~> (~servo_state \/ last_seen_time /= c \/ tick.pressed
                   \/ pc \notin LoopPcs)
    /\ [][ (~servo_state /\ servo_state' /\ pc \in LoopPcs)
              => (TrustedSeen' \/ PressRecognized') ]_vars
\* the latch has been closed by a close check, its timer still armed at
\* the time at which the latch opened, no button sample having read pressed
C20_Witness ==
    /\ pc \in LoopPcs /\ ~servo_state /\ ~tick.pressed
    /\ last_seen_time \in ArmedTimes
    /\ calls /= <<>> /\ calls[Len(calls)].op = "close"
====
